---- MODULE Spec2Model ----
(***************************************************************************)
(* The account, group and partition commands of openlmi-scripts: one       *)
(* command-line invocation run against the state kept by the remote        *)
(* management providers.  An invocation parses its options, verifies them, *)
(* transforms them and runs the command's callable.  Every request sent to *)
(* a provider is appended to `calls`; instances yielded to the formatter   *)
(* are appended to `out`; an exception leaving the callable is `error`.    *)
(***************************************************************************)
EXTENDS Integers, Sequences, FiniteSets, TLC

(* ------------------------------ bounds -------------------------------- *)

\* longest --uid / --gid string tried
MaxIdLen == 2
\* longest <user> ... / <group> ... list tried
MaxUsers == 3

(* ------------------------------ values -------------------------------- *)

\* Python's None and a value that is not None: an optional is a set of at most
\* one element, so that None differs from the empty string.
None == {}
Some(v) == {v}
Val(o) == CHOOSE v \in o : TRUE

Users == {"a", "b"}
GroupNames == {"g", "h"}
Digits == {"7"}
Chars == Digits \cup {"x"}

\* the strings of at most n characters, as sequences of characters
StringsUpTo(n) == UNION {[1..k -> Chars] : k \in 0..n}
\* the lists of at most n names
ListsUpTo(S, n) == UNION {[1..k -> S] : k \in 0..n}

OptIds == {None} \cup {Some(s) : s \in StringsUpTo(MaxIdLen)}
OptPasswords == {None, Some(""), Some("s3cret")}

\* the lists without repetition over S: the members of a group, in the
\* provider's enumeration order
Arrangements(S) ==
    {s \in ListsUpTo(S, Cardinality(S)) : \A i, j \in DOMAIN s : i # j => s[i] # s[j]}

Range(s) == {s[i] : i \in DOMAIN s}

(* ------------------------------ errors -------------------------------- *)

NoError == [type |-> "None", msg |-> <<>>]
LmiFailed(m) == [type |-> "LmiFailed", msg |-> m]
LmiInvalidOptions(m) == [type |-> "LmiInvalidOptions", msg |-> m]
\* an attribute looked up on None
AttributeError == [type |-> "AttributeError", msg |-> <<>>]
\* a request the provider refused
ProviderError == [type |-> "ProviderError", msg |-> <<>>]

(* ------------------------------- state -------------------------------- *)

VARIABLES
    accounts,   \* provider: the names of the LMI_Account instances
    groups,     \* provider: the names of the LMI_Group instances
    members,    \* provider: group name -> its member accounts, in order
    pc,         \* "idle" before the invocation, "done" after it
    cmd,        \* the command invoked
    opts,       \* its options, as docopt parsed them
    calls,      \* the requests sent to the providers, in order
    out,        \* the instances yielded to the formatter, in order
    error,      \* the exception that ended the invocation, or NoError
    idx         \* group add/remove: the <user> entry the loop was at when it ended

vars == <<accounts, groups, members, pc, cmd, opts, calls, out, error, idx>>

\* what docopt yields for options and arguments that were not given
DefaultOpts ==
    [name |-> "", group |-> <<>>, user |-> <<>>,
     password |-> None, plainpassword |-> None, uid |-> None, gid |-> None,
     gecos |-> None, directory |-> None, shell |-> None,
     reserved |-> FALSE, nocreatehome |-> FALSE, nocreategroup |-> FALSE,
     nodeletehome |-> FALSE, nodeletegroup |-> FALSE, force |-> FALSE,
     extended |-> FALSE, logical |-> FALSE, device |-> <<>>, size |-> None]

Init ==
    /\ accounts \in SUBSET Users
    /\ groups \in SUBSET GroupNames
    /\ members \in [groups -> Arrangements(accounts)]
    /\ pc = "idle"
    /\ cmd = "none"
    /\ opts = DefaultOpts
    /\ calls = <<>>
    /\ out = <<>>
    /\ error = NoError
    /\ idx = 0

(* ------------------------- provider instances -------------------------- *)

UserIDOf == [n \in Users |-> IF n = "a" THEN "1000" ELSE "1001"]
GroupIDOf == [n \in GroupNames |-> IF n = "g" THEN "2000" ELSE "2001"]

\* the instances of ns.LMI_Account and of ns.LMI_Group
LMI_Account(acc) == {[Name |-> n, UserID |-> UserIDOf[n]] : n \in acc}
LMI_Group(grp) == {[Name |-> n, InstanceID |-> <<"LMI", "GID", GroupIDOf[n]>>] : n \in grp}

\* cls.first_instance({"Name": name}): an instance whose Name is name, or None
first_instance(instances, name) ==
    LET found == {i \in instances : i.Name = name}
    IN IF found = {} THEN None ELSE Some(CHOOSE i \in found : TRUE)

(* --------------------------- the invocation ---------------------------- *)

\* what a command's callable leaves behind
Result(e, cl, o, acc, grp, mem, i) ==
    [error |-> e, calls |-> cl, out |-> o,
     accounts |-> acc, groups |-> grp, members |-> mem, idx |-> i]

\* an end-point command: verify_options first; the callable runs only when
\* verification raised nothing
RunEndPoint(verr, res) ==
    IF verr # NoError
    THEN Result(verr, <<>>, <<>>, accounts, groups, members, 0)
    ELSE res

\* the invocation ends: its effects and its results become the state
Finish(c, o, res) ==
    /\ pc' = "done"
    /\ cmd' = c
    /\ opts' = o
    /\ error' = res.error
    /\ calls' = res.calls
    /\ out' = res.out
    /\ accounts' = res.accounts
    /\ groups' = res.groups
    /\ members' = res.members
    /\ idx' = res.idx

\* str.isdigit(): at least one character, and every character a digit
isdigit(s) == Len(s) > 0 /\ \A i \in 1..Len(s) : s[i] \in Digits

(* ----------------------------- user create ----------------------------- *)

\* LMI_AccountManagementService.CreateAccount: refused for a name in use
ProviderCreateAccount(acc, name, refused) ==
    IF refused \/ name \in acc THEN None ELSE Some(acc \cup {name})

\* verify_options without the check of the two password options
VerifyOptionsNoPasswordCheck(o) ==
    IF o.uid # None /\ ~isdigit(Val(o.uid))
    THEN LmiInvalidOptions(<<"User ID must be a number">>)
    ELSE IF o.gid # None /\ ~isdigit(Val(o.gid))
    THEN LmiInvalidOptions(<<"Group ID must be a number">>)
    ELSE NoError

UserCreateVerifyOptions(o) ==
    IF o.password # None /\ o.plainpassword # None
    THEN LmiInvalidOptions(<<"Must set only one of password options">>)
    ELSE IF o.uid # None /\ ~isdigit(Val(o.uid))
    THEN LmiInvalidOptions(<<"User ID must be a number">>)
    ELSE IF o.gid # None /\ ~isdigit(Val(o.gid))
    THEN LmiInvalidOptions(<<"Group ID must be a number">>)
    ELSE NoError

\* the password choice testing truth ("if not password and plainpassword")
\* instead of "is None"
UsedPasswordByTruth(_password, _plainpassword) ==
    IF _password \in {None, Some("")} /\ _plainpassword \notin {None, Some("")}
    THEN [used_password |-> _plainpassword, is_plain |-> TRUE]
    ELSE [used_password |-> _password, is_plain |-> FALSE]

\* create_user: the password sent and whether it is plain text
UsedPassword(_password, _plainpassword) ==
    IF _password = None /\ _plainpassword # None
    THEN [used_password |-> _plainpassword, is_plain |-> TRUE]
    ELSE [used_password |-> _password, is_plain |-> FALSE]

create_user(name, o, refused) ==
    LET pw == UsedPassword(o.password, o.plainpassword)
        full == [Name |-> Some(name),
                 System |-> Some("cs"),
                 GECOS |-> o.gecos,
                 HomeDirectory |-> o.directory,
                 DontCreateHome |-> Some(o.nocreatehome),
                 Shell |-> o.shell,
                 UID |-> o.uid,
                 GID |-> o.gid,
                 SystemAccount |-> Some(o.reserved),
                 Password |-> pw.used_password,
                 DontCreateGroup |-> Some(o.nocreategroup),
                 PasswordIsPlain |-> Some(pw.is_plain)]
        \* for key in params.keys(): if params[key] is None: del params[key]
        kept == {k \in DOMAIN full : full[k] # None}
        params == [k \in kept |-> Val(full[k])]
        call == [method |-> "CreateAccount", target |-> "lams", params |-> params]
        after == ProviderCreateAccount(accounts, name, refused)
    IN IF after = None
       THEN Result(ProviderError, <<call>>, <<>>, accounts, groups, members, 0)
       ELSE Result(NoError, <<call>>, <<>>, Val(after), groups, members, 0)

\* -c, -d, -s and -n are passed through unread: tried all absent or all given
ExtraChoices ==
    {[gecos |-> None, directory |-> None, shell |-> None, nocreategroup |-> FALSE],
     [gecos |-> Some("Full Name"), directory |-> Some("/home/x"),
      shell |-> Some("/bin/sh"), nocreategroup |-> TRUE]}

UserCreate ==
    /\ pc = "idle"
    /\ \E name \in Users, pw \in OptPasswords, ppw \in OptPasswords,
          uid \in OptIds, gid \in OptIds, extra \in ExtraChoices,
          r \in BOOLEAN, m \in BOOLEAN, refused \in BOOLEAN :
        LET o == [DefaultOpts EXCEPT !.name = name, !.password = pw,
                     !.plainpassword = ppw, !.uid = uid, !.gid = gid,
                     !.gecos = extra.gecos, !.directory = extra.directory,
                     !.shell = extra.shell, !.reserved = r,
                     !.nocreatehome = m,
                     !.nocreategroup = extra.nocreategroup]
        IN Finish("user create", o,
                  RunEndPoint(UserCreateVerifyOptions(o), create_user(name, o, refused)))

(* ---------------------------- group create ----------------------------- *)

\* LMI_AccountManagementService.CreateGroup: refused for a name in use
ProviderCreateGroup(grp, name, refused) ==
    IF refused \/ name \in grp THEN None ELSE Some(grp \cup {name})

\* verify_options that accepts any --gid
VerifyOptionsNoGidCheck(o) == NoError

GroupCreateVerifyOptions(o) ==
    IF o.gid # None /\ ~isdigit(Val(o.gid))
    THEN LmiInvalidOptions(<<"Group ID must be a number">>)
    ELSE NoError

\* transform_options: options['<group>'] = options.pop('<group>')[0]
GroupToString(o) == o.group[1]

create_group(group, _reserved, _gid, refused) ==
    LET base == [k \in {"Name", "System"} |-> IF k = "Name" THEN group ELSE "cs"]
        withSys == IF _reserved
                   THEN [k \in DOMAIN base \cup {"SystemAccount"} |->
                            IF k = "SystemAccount" THEN TRUE ELSE base[k]]
                   ELSE base
        params == IF _gid # None
                  THEN [k \in DOMAIN withSys \cup {"GID"} |->
                            IF k = "GID" THEN Val(_gid) ELSE withSys[k]]
                  ELSE withSys
        call == [method |-> "CreateGroup", target |-> "lams", params |-> params]
        after == ProviderCreateGroup(groups, group, refused)
    IN IF after = None
       THEN Result(ProviderError, <<call>>, <<>>, accounts, groups, members, 0)
       ELSE Result(NoError, <<call>>, <<>>, accounts, Val(after),
                   [g \in Val(after) |-> IF g \in groups THEN members[g] ELSE <<>>], 0)

GroupCreate ==
    /\ pc = "idle"
    /\ \E group \in GroupNames, gid \in OptIds, r \in BOOLEAN, refused \in BOOLEAN :
        LET o == [DefaultOpts EXCEPT !.group = <<group>>, !.gid = gid, !.reserved = r]
        IN Finish("group create", o,
                  RunEndPoint(GroupCreateVerifyOptions(o),
                              create_group(GroupToString(o), o.reserved, o.gid, refused)))

(* ------------------------- user show, group show ----------------------- *)

\* the instances yielded for the names from the i-th on, until one is missing
RECURSIVE ShowNamed(_, _, _, _, _)
ShowNamed(instances, what, names, i, yielded) ==
    IF i > Len(names)
    THEN Result(NoError, <<>>, yielded, accounts, groups, members, 0)
    ELSE LET inst == first_instance(instances, names[i])
         IN IF inst = None
            THEN Result(LmiFailed(<<what, names[i]>>), <<>>, yielded,
                        accounts, groups, members, 0)
            ELSE ShowNamed(instances, what, names, i + 1, Append(yielded, Val(inst)))

\* cls.instances(), in the order the provider enumerates them
Enumerations(instances) ==
    {e \in [1..Cardinality(instances) -> instances] : Range(e) = instances}

\* show_user passing over the names that have no instance
RECURSIVE ShowNamedSkipping(_, _, _, _)
ShowNamedSkipping(instances, names, i, yielded) ==
    IF i > Len(names)
    THEN Result(NoError, <<>>, yielded, accounts, groups, members, 0)
    ELSE LET inst == first_instance(instances, names[i])
         IN ShowNamedSkipping(instances, names, i + 1,
                              IF inst = None THEN yielded ELSE Append(yielded, Val(inst)))

show_user_skipping(users, enum) ==
    IF users # <<>>
    THEN ShowNamedSkipping(LMI_Account(accounts), users, 1, <<>>)
    ELSE Result(NoError, <<>>, enum, accounts, groups, members, 0)

show_user(users, enum) ==
    IF users # <<>>
    THEN ShowNamed(LMI_Account(accounts), "No such user", users, 1, <<>>)
    ELSE Result(NoError, <<>>, enum, accounts, groups, members, 0)

show_group(grps, enum) ==
    IF grps # <<>>
    THEN ShowNamed(LMI_Group(groups), "No such group", grps, 1, <<>>)
    ELSE Result(NoError, <<>>, enum, accounts, groups, members, 0)

UserShow ==
    /\ pc = "idle"
    /\ \E users \in ListsUpTo(Users, MaxUsers),
          enum \in Enumerations(LMI_Account(accounts)) :
        LET o == [DefaultOpts EXCEPT !.user = users]
        IN Finish("user show", o, RunEndPoint(NoError, show_user(o.user, enum)))

GroupShow ==
    /\ pc = "idle"
    /\ \E grps \in ListsUpTo(GroupNames, MaxUsers),
          enum \in Enumerations(LMI_Group(groups)) :
        LET o == [DefaultOpts EXCEPT !.group = grps]
        IN Finish("group show", o, RunEndPoint(NoError, show_group(o.group, enum)))

(* ----------------------------- user delete ----------------------------- *)

\* the members of every group without the account
WithoutMember(mem, name) ==
    [g \in DOMAIN mem |-> SelectSeq(mem[g], LAMBDA u : u # name)]

\* the instances of the named users, or None at the first that is missing
RECURSIVE LookupAll(_, _, _)
LookupAll(users, i, found) ==
    IF i > Len(users)
    THEN [error |-> NoError, instances |-> found]
    ELSE LET inst == first_instance(LMI_Account(accounts), users[i])
         IN IF inst = None
            THEN [error |-> LmiFailed(<<"No such user", users[i]>>), instances |-> found]
            ELSE LookupAll(users, i + 1, Append(found, Val(inst)))

\* inst.DeleteUser(**params) for the instances from the i-th on; the provider
\* refuses the refuseAt-th request, and any request for an account that is gone
RECURSIVE DeleteAll(_, _, _, _, _, _, _)
DeleteAll(instances, params, i, acc, mem, cl, refuseAt) ==
    IF i > Len(instances)
    THEN Result(NoError, cl, <<>>, acc, groups, mem, 0)
    ELSE LET call == [method |-> "DeleteUser", target |-> instances[i].Name,
                      params |-> params]
         IN IF i = refuseAt \/ instances[i].Name \notin acc
            THEN Result(ProviderError, Append(cl, call), <<>>, acc, groups, mem, 0)
            ELSE DeleteAll(instances, params, i + 1, acc \ {instances[i].Name},
                           WithoutMember(mem, instances[i].Name),
                           Append(cl, call), refuseAt)

\* the two "don't delete" parameters exchanged
DeleteParamsExchanged(_nodeletegroup, _nodeletehome, _force) ==
    [DontDeleteHomeDirectory |-> _nodeletegroup,
     DontDeleteGroup |-> _nodeletehome,
     Force |-> _force]

\* delete_user: the parameters of every DeleteUser request
DeleteParams(_nodeletegroup, _nodeletehome, _force) ==
    [DontDeleteHomeDirectory |-> _nodeletehome,
     DontDeleteGroup |-> _nodeletegroup,
     Force |-> _force]

delete_user(_nodeletegroup, _nodeletehome, _force, users, refuseAt) ==
    LET params == DeleteParams(_nodeletegroup, _nodeletehome, _force)
        looked == LookupAll(users, 1, <<>>)
    IN IF looked.error # NoError
       THEN Result(looked.error, <<>>, <<>>, accounts, groups, members, 0)
       ELSE DeleteAll(looked.instances, params, 1, accounts, members, <<>>, refuseAt)

UserDelete ==
    /\ pc = "idle"
    /\ \E users \in ListsUpTo(Users, MaxUsers) \ {<<>>},
          h \in BOOLEAN, g \in BOOLEAN, f \in BOOLEAN, refuseAt \in 0..MaxUsers :
        /\ refuseAt <= Len(users)
        /\ LET o == [DefaultOpts EXCEPT !.user = users, !.nodeletehome = h,
                        !.nodeletegroup = g, !.force = f]
           IN Finish("user delete", o,
                     RunEndPoint(NoError,
                                 delete_user(o.nodeletegroup, o.nodeletehome,
                                             o.force, o.user, refuseAt)))

(* --------------------------- partition create -------------------------- *)

\* the block devices the storage provider knows
Devices == {"sda"}
DeviceArgs == {"sda", "sdz"}
SizeArgs == {None, Some(<<"7">>), Some(<<"7", "7">>), Some(<<"x">>)}

\* str2device(ns, device): the device of that name; raises when there is none
str2device(device) ==
    IF device \in Devices
    THEN [error |-> NoError, value |-> Some([DeviceID |-> device])]
    ELSE [error |-> LmiFailed(<<"Device not found", device>>), value |-> None]

RECURSIVE DecimalValue(_)
DecimalValue(s) ==
    IF s = <<>> THEN 0
    ELSE 10 * DecimalValue(SubSeq(s, 1, Len(s) - 1))
         + (IF s[Len(s)] = "7" THEN 7 ELSE 0)

\* str2size(size): None stays None, a number of sectors is converted; raises
\* on anything else
str2size(size) ==
    IF size = None THEN [error |-> NoError, value |-> None]
    ELSE IF isdigit(Val(size))
    THEN [error |-> NoError, value |-> Some(DecimalValue(Val(size)))]
    ELSE [error |-> LmiFailed(<<"Invalid size", Val(size)>>), value |-> None]

\* transform_options: options['<device>'] = options.pop('<device>')[0]
DeviceToScalar(o) == o.device[1]

\* the two partition types exchanged
PartitionTypeExchanged(_extended, _logical) ==
    IF _extended THEN Some("PARTITION_TYPE_LOGICAL")
    ELSE IF _logical THEN Some("PARTITION_TYPE_EXTENDED")
    ELSE None

\* Create.execute: the partition type asked of create_partition
PartitionType(_extended, _logical) ==
    IF _extended THEN Some("PARTITION_TYPE_EXTENDED")
    ELSE IF _logical THEN Some("PARTITION_TYPE_LOGICAL")
    ELSE None

PartitionCreateExecute(device, size, _extended, _logical, refused) ==
    LET dev == str2device(device)
        sz == str2size(size)
        ptype == PartitionType(_extended, _logical)
        call == [method |-> "create_partition", target |-> "partition",
                 params |-> [device |-> dev.value, size |-> sz.value, ptype |-> ptype]]
    IN IF dev.error # NoError
       THEN Result(dev.error, <<>>, <<>>, accounts, groups, members, 0)
       ELSE IF sz.error # NoError
       THEN Result(sz.error, <<>>, <<>>, accounts, groups, members, 0)
       ELSE IF refused
       THEN Result(ProviderError, <<call>>, <<>>, accounts, groups, members, 0)
       ELSE Result(NoError, <<call>>, <<"Partition created.">>,
                   accounts, groups, members, 0)

\* usage: create [ --logical | --extended ] <device> [<size>]
PartitionCreate ==
    /\ pc = "idle"
    /\ \E device \in DeviceArgs, size \in SizeArgs,
          e \in BOOLEAN, l \in BOOLEAN, refused \in BOOLEAN :
        /\ ~(e /\ l)
        /\ LET o == [DefaultOpts EXCEPT !.device = <<device>>, !.size = size,
                        !.extended = e, !.logical = l]
           IN Finish("partition create", o,
                     RunEndPoint(NoError,
                                 PartitionCreateExecute(DeviceToScalar(o), o.size,
                                                        o.extended, o.logical, refused)))

(* ------------------------- group add, group remove --------------------- *)

\* the LMI_Identity of an account
IdentityOf(name) == [InstanceID |-> <<"LMI", "UID", UserIDOf[name]>>, account |-> name]

\* is_in_group(group, user): compares the group's first member with the user;
\* user is an optional instance, and an attribute of None raises
is_in_group(mem, group, user) ==
    LET identity == IF mem[group] = <<>> THEN None
                    ELSE Some(IdentityOf(mem[group][1]))
    IN IF identity = None THEN [error |-> NoError, value |-> FALSE]
       ELSE IF user = None THEN [error |-> AttributeError, value |-> FALSE]
       ELSE [error |-> NoError,
             value |-> Val(identity).InstanceID[Len(Val(identity).InstanceID)]
                           = Val(user).UserID]

\* a user name taken from the <user> list is a string, never None
IsNoneName(user) == FALSE

\* the loop of add_to_group from the i-th user on; the provider refuses the
\* refuseAt-th iteration's request, and a membership that exists already
RECURSIVE AddUsers(_, _, _, _, _, _)
AddUsers(group, users, i, mem, cl, refuseAt) ==
    IF i > Len(users)
    THEN Result(NoError, cl, <<>>, accounts, groups, mem, Len(users))
    ELSE LET user == users[i]
             user_inst == first_instance(LMI_Account(accounts), user)
             isin == is_in_group(mem, group, user_inst)
             call == [method |-> "create_instance", target |-> "LMI_MemberOfGroup",
                      params |-> [Member |-> user, Collection |-> group]]
         IN IF IsNoneName(user)
            THEN Result(LmiFailed(<<"No such user", user>>), cl, <<>>,
                        accounts, groups, mem, i)
            ELSE IF isin.error # NoError
            THEN Result(isin.error, cl, <<>>, accounts, groups, mem, i)
            ELSE IF isin.value
            THEN AddUsers(group, users, i + 1, mem, cl, refuseAt)
            ELSE IF user_inst = None
            THEN Result(AttributeError, cl, <<>>, accounts, groups, mem, i)
            ELSE IF i = refuseAt \/ user \in Range(mem[group])
            THEN Result(ProviderError, Append(cl, call), <<>>, accounts, groups, mem, i)
            ELSE AddUsers(group, users, i + 1,
                          [mem EXCEPT ![group] = Append(@, user)],
                          Append(cl, call), refuseAt)

add_to_group(group, users, refuseAt) ==
    IF first_instance(LMI_Group(groups), group) = None
    THEN Result(LmiFailed(<<"No such group", group>>), <<>>, <<>>,
                accounts, groups, members, 0)
    ELSE AddUsers(group, users, 1, members, <<>>, refuseAt)

\* the loop of remove_from_group from the i-th user on
RECURSIVE RemoveUsers(_, _, _, _, _, _)
RemoveUsers(group, users, i, mem, cl, refuseAt) ==
    IF i > Len(users)
    THEN Result(NoError, cl, <<>>, accounts, groups, mem, Len(users))
    ELSE LET user == users[i]
             user_inst == first_instance(LMI_Account(accounts), user)
             \* identity.references(ResultClass="LMI_MemberOfGroup")
             mogs == {g \in DOMAIN mem : user \in Range(mem[g])}
             matching == {g \in mogs : g = group}
             call == [method |-> "delete", target |-> "LMI_MemberOfGroup",
                      params |-> [Member |-> user, Collection |-> group]]
         IN IF user_inst = None
            THEN Result(LmiFailed(<<"No such user", user>>), cl, <<>>,
                        accounts, groups, mem, i)
            ELSE IF matching = {}
            THEN RemoveUsers(group, users, i + 1, mem, cl, refuseAt)
            ELSE IF i = refuseAt
            THEN Result(ProviderError, Append(cl, call), <<>>, accounts, groups, mem, i)
            ELSE RemoveUsers(group, users, i + 1,
                             [mem EXCEPT ![group] = SelectSeq(@, LAMBDA u : u # user)],
                             Append(cl, call), refuseAt)

\* remove_from_group undoing its removals when a later user fails
remove_from_group_undoing(group, users, refuseAt) ==
    IF first_instance(LMI_Group(groups), group) = None
    THEN Result(LmiFailed(<<"No such group", group>>), <<>>, <<>>,
                accounts, groups, members, 0)
    ELSE LET r == RemoveUsers(group, users, 1, members, <<>>, refuseAt)
         IN IF r.error # NoError THEN [r EXCEPT !.members = members] ELSE r

remove_from_group(group, users, refuseAt) ==
    IF first_instance(LMI_Group(groups), group) = None
    THEN Result(LmiFailed(<<"No such group", group>>), <<>>, <<>>,
                accounts, groups, members, 0)
    ELSE RemoveUsers(group, users, 1, members, <<>>, refuseAt)

GroupAdd ==
    /\ pc = "idle"
    /\ \E group \in GroupNames, users \in ListsUpTo(Users, MaxUsers) \ {<<>>},
          refuseAt \in 0..MaxUsers :
        /\ refuseAt <= Len(users)
        /\ LET o == [DefaultOpts EXCEPT !.group = <<group>>, !.user = users]
           IN Finish("group add", o,
                     RunEndPoint(NoError, add_to_group(GroupToString(o), o.user, refuseAt)))

GroupRemove ==
    /\ pc = "idle"
    /\ \E group \in GroupNames, users \in ListsUpTo(Users, MaxUsers) \ {<<>>},
          refuseAt \in 0..MaxUsers :
        /\ refuseAt <= Len(users)
        /\ LET o == [DefaultOpts EXCEPT !.group = <<group>>, !.user = users]
           IN Finish("group remove", o,
                     RunEndPoint(NoError,
                                 remove_from_group(GroupToString(o), o.user, refuseAt)))

(* ------------------------------ the claims ----------------------------- *)

Done(c) == pc = "done" /\ cmd = c

\* C1: for `user create`, when both --password and --plainpassword are given,
\* verification raises LmiInvalidOptions("Must set only one of password
\* options") and no CreateAccount request is made in that run.
C1_BothPasswordsRejected ==
    (Done("user create") /\ opts.password # None /\ opts.plainpassword # None)
        => /\ error = LmiInvalidOptions(<<"Must set only one of password options">>)
           /\ calls = <<>>

C1_Witness ==
    /\ Done("user create")
    /\ opts.password # None /\ opts.plainpassword # None
    /\ error.type = "LmiInvalidOptions"

\* an ID that was given and is a number: one decimal digit or more, nothing else
IdIsNumber(id) ==
    id # None /\ Val(id) # <<>> /\ \A i \in DOMAIN Val(id) : Val(id)[i] \in Digits
IdIsBad(id) == id # None /\ ~IdIsNumber(id)
IdErrors ==
    {LmiInvalidOptions(<<"User ID must be a number">>),
     LmiInvalidOptions(<<"Group ID must be a number">>)}

\* C2: a --uid or --gid of `user create`, or a --gid of `group create`, that
\* is given and is not a number makes verification raise LmiInvalidOptions and
\* no CreateAccount / CreateGroup request is made; an omitted ID and an
\* all-digit ID pass the ID checks.
C2_IdsMustBeNumbers ==
    /\ (Done("user create") /\ (IdIsBad(opts.uid) \/ IdIsBad(opts.gid)))
           => error.type = "LmiInvalidOptions" /\ calls = <<>>
    /\ (Done("group create") /\ IdIsBad(opts.gid))
           => error \in IdErrors /\ calls = <<>>
    /\ (Done("user create") /\ ~IdIsBad(opts.uid) /\ ~IdIsBad(opts.gid))
           => error \notin IdErrors
    /\ (Done("user create") /\ ~IdIsBad(opts.uid) /\ ~IdIsBad(opts.gid)
            /\ (opts.password = None \/ opts.plainpassword = None))
           => error.type # "LmiInvalidOptions" /\ Len(calls) = 1
    /\ (Done("group create") /\ ~IdIsBad(opts.gid))
           => error.type # "LmiInvalidOptions" /\ Len(calls) = 1

C2_Witness ==
    /\ Done("group create")
    /\ opts.gid = Some(<<"7", "x">>)
    /\ error = LmiInvalidOptions(<<"Group ID must be a number">>)

\* C3: for `user create`, --reserved implies -M: whenever --reserved is set the
\* CreateAccount request carries DontCreateHome = true, with or without
\* --nocreatehome.
C3_ReservedImpliesNoCreateHome ==
    (Done("user create") /\ opts.reserved /\ calls # <<>>)
        => calls[1].params["DontCreateHome"] = TRUE

\* C4: for `user create`, with --password the request's Password is that hash
\* and PasswordIsPlain is false; with only --plainpassword Password is the
\* plain password and PasswordIsPlain is true; with neither there is no
\* Password parameter and PasswordIsPlain is false.  PasswordIsPlain is true
\* exactly when the Password sent is the --plainpassword value.
C4_PasswordFollowsOptions ==
    (Done("user create") /\ calls # <<>>) =>
        LET p == calls[1].params
            sent == "Password" \in DOMAIN p
        IN /\ opts.password # None
                => sent /\ p["Password"] = Val(opts.password)
                        /\ p["PasswordIsPlain"] = FALSE
           /\ (opts.password = None /\ opts.plainpassword # None)
                => sent /\ p["Password"] = Val(opts.plainpassword)
                        /\ p["PasswordIsPlain"] = TRUE
           /\ (opts.password = None /\ opts.plainpassword = None)
                => ~sent /\ p["PasswordIsPlain"] = FALSE
           /\ p["PasswordIsPlain"] = TRUE
                <=> (sent /\ opts.plainpassword # None
                          /\ p["Password"] = Val(opts.plainpassword))

C4_Witness ==
    /\ Done("user create")
    /\ calls # <<>>
    /\ opts.plainpassword = Some("")
    /\ calls[1].params["PasswordIsPlain"] = TRUE
    /\ calls[1].params["Password"] = ""

\* the DeleteUser requests for every entry of the <user> list, in its order
ExpectedDeletes(o) ==
    [i \in 1..Len(o.user) |->
        [method |-> "DeleteUser", target |-> o.user[i],
         params |-> [DontDeleteHomeDirectory |-> o.nodeletehome,
                     DontDeleteGroup |-> o.nodeletegroup,
                     Force |-> o.force]]]

IsPrefix(s, t) == Len(s) <= Len(t) /\ \A i \in 1..Len(s) : s[i] = t[i]

\* a `user delete` whose named users all exist when it starts
DeleteOfExistingUsers ==
    pc = "idle" /\ pc' = "done" /\ cmd' = "user delete"
        /\ Range(opts'.user) \subseteq accounts

\* C5 (as stated): when every named user exists, `user delete` invokes
\* DeleteUser exactly once per name of the list, in the order given, with
\* DontDeleteHomeDirectory = --nodeletehome, DontDeleteGroup = --nodeletegroup
\* and Force = --force, and on no account that was not named.
C5_DeleteUserOncePerName ==
    [][DeleteOfExistingUsers => calls' = ExpectedDeletes(opts')]_vars

\* C5 (amended): when every named user exists, the DeleteUser requests are the
\* list's entries in order with those parameters, one per entry up to and
\* including the first request the provider refuses: all of them when none is
\* refused, and never one on an account that was not named.
C5_DeleteUserInOrderUntilRefused ==
    [][DeleteOfExistingUsers =>
          /\ IsPrefix(calls', ExpectedDeletes(opts'))
          /\ calls' # <<>>
          /\ error' = NoError => calls' = ExpectedDeletes(opts')
          /\ error' # NoError => error' = ProviderError
          /\ \A i \in 1..Len(calls') : calls'[i].target \in Range(opts'.user)
      ]_vars

C5_Witness ==
    /\ Done("user delete")
    /\ error = ProviderError
    /\ Len(calls) = 2
    /\ Len(opts.user) = 3
    /\ opts.nodeletehome /\ ~opts.nodeletegroup

Min(S) == CHOOSE m \in S : \A x \in S : m <= x

\* what the show command of `names` must leave, given the instances there are
ShownAsAsked(names, instances, what) ==
    IF names = <<>>
    THEN /\ error = NoError
         /\ Range(out) = instances
         /\ Len(out) = Cardinality(instances)
    ELSE LET missing == {i \in DOMAIN names : \A inst \in instances : inst.Name # names[i]}
             n == IF missing = {} THEN Len(names) ELSE Min(missing) - 1
         IN /\ Len(out) = n
            /\ \A i \in 1..n : out[i] \in instances /\ out[i].Name = names[i]
            /\ missing = {} => error = NoError
            /\ missing # {} => error = LmiFailed(<<what, names[n + 1]>>)

\* C6: `user show` and `group show` yield all instances when no names are
\* given; given names, they yield one instance per name, in the order given,
\* each the instance of that Name, and raise LmiFailed('No such user/group
\* "<name>"') at the first name without an instance, yielding nothing for a
\* name that was not asked for.
C6_ShowYieldsTheNamed ==
    /\ Done("user show") => ShownAsAsked(opts.user, LMI_Account(accounts), "No such user")
    /\ Done("group show") => ShownAsAsked(opts.group, LMI_Group(groups), "No such group")

C6_Witness ==
    /\ Done("user show")
    /\ Len(opts.user) = 3
    /\ Len(out) = 2
    /\ error = LmiFailed(<<"No such user", opts.user[3]>>)

\* the arguments str2device and str2size accept
ArgumentsConvert(o) ==
    /\ o.device[1] \in Devices
    /\ o.size = None \/ IdIsNumber(o.size)

ExpectedPartitionType(o) ==
    CASE o.extended -> Some("PARTITION_TYPE_EXTENDED")
      [] o.logical /\ ~o.extended -> Some("PARTITION_TYPE_LOGICAL")
      [] OTHER -> None

\* C7 (as stated): `partition create` asks create_partition for
\* PARTITION_TYPE_EXTENDED with --extended, for PARTITION_TYPE_LOGICAL with
\* --logical and for None with neither, never picks a type on its own, and
\* makes exactly one create_partition call per invocation.
C7_OneCreatePartitionCall ==
    Done("partition create") =>
        /\ Len(calls) = 1
        /\ calls[1].method = "create_partition"
        /\ calls[1].params.ptype = ExpectedPartitionType(opts)

\* C7 (amended): the type asked of create_partition is as stated, and the
\* command makes at most one create_partition call per invocation: exactly one
\* when str2device and str2size return, none when either raises.
C7_AtMostOneCreatePartitionCall ==
    Done("partition create") =>
        /\ Len(calls) <= 1
        /\ Len(calls) = 1 <=> ArgumentsConvert(opts)
        /\ \A i \in 1..Len(calls) :
              /\ calls[i].method = "create_partition"
              /\ calls[i].params.ptype = ExpectedPartitionType(opts)
        /\ ~ArgumentsConvert(opts) => error.type = "LmiFailed"

C7_Witness ==
    /\ Done("partition create")
    /\ opts.logical
    /\ Len(calls) = 1
    /\ calls[1].params.ptype = Some("PARTITION_TYPE_LOGICAL")
    /\ calls[1].params.size = Some(77)

\* the members of every group after the first n users of the list were added
\* to (removed from) group g, as sets
MembersAfter(c, before, after, g, users, n) ==
    /\ DOMAIN after = DOMAIN before
    /\ \A h \in DOMAIN before \ {g} : after[h] = before[h]
    /\ g \in DOMAIN before =>
          Range(after[g]) =
              IF c = "group add"
              THEN Range(before[g]) \cup {users[j] : j \in 1..n}
              ELSE Range(before[g]) \ {users[j] : j \in 1..n}

\* C8: when `group add` or `group remove` fails at the k-th user of the list
\* (a missing user or a request the provider refuses), the changes made for
\* users 1..k-1 stay, nothing is changed for users k..n, and the error ends
\* the command: it is neither retried nor rolled back.
C8_NoRecoveryInGroupCommands ==
    [][(pc = "idle" /\ pc' = "done" /\ cmd' \in {"group add", "group remove"}) =>
          LET g == opts'.group[1]
              us == opts'.user
              k == idx'
              missing == {i \in DOMAIN us : us[i] \notin accounts}
          IN /\ accounts' = accounts /\ groups' = groups
             /\ g \notin groups =>
                   /\ error' = LmiFailed(<<"No such group", g>>)
                   /\ members' = members /\ calls' = <<>>
             /\ (g \in groups /\ error' # NoError) =>
                   /\ k \in 1..Len(us)
                   /\ MembersAfter(cmd', members, members', g, us, k - 1)
                   /\ Len(calls') <= k
                   /\ \A i \in 1..Len(calls') : calls'[i].params.Member \in
                                                   {us[j] : j \in 1..k}
             /\ (g \in groups /\ missing # {}) =>
                   error' # NoError /\ k <= Min(missing)
             /\ (g \in groups /\ error' = NoError) =>
                   MembersAfter(cmd', members, members', g, us, Len(us))
      ]_vars

C8_Witness ==
    /\ Done("group remove")
    /\ Len(opts.user) = 3
    /\ opts.group[1] \in groups
    /\ error = LmiFailed(<<"No such user", opts.user[2]>>)
    /\ idx = 2
    /\ Len(calls) = 1
    /\ calls[1].params.Member = opts.user[1]
    /\ opts.user[1] \notin Range(members[opts.group[1]])

Next ==
    \/ UserCreate
    \/ GroupCreate
    \/ UserShow
    \/ GroupShow
    \/ UserDelete
    \/ PartitionCreate
    \/ GroupAdd
    \/ GroupRemove

Spec == Init /\ [][Next]_vars

====
